---- MODULE Spec2Model ----
(***************************************************************************)
(* Model of src/main/cpp/blaze_exit_code.h: the enumeration                *)
(* blaze_exit_code::ExitCodes, the exit codes of the Blaze client.         *)
(*                                                                         *)
(* The header defines four enumerators and nothing else: no function, no   *)
(* object, no storage.  The only thing a program can do with it is name an *)
(* enumerator and obtain its integer value.  The model is therefore the    *)
(* enumeration as a table from enumerator names to integers, and a client  *)
(* that evaluates enumerators one after the other; 'calls' records, in     *)
(* order, which enumerator was named and which integer came back.          *)
(***************************************************************************)
EXTENDS Integers, Sequences, FiniteSets

\* Number of enumerator evaluations the client performs in one run.
MaxCalls == 4

\* blaze_exit_code.h:26
SUCCESS == 0

\* blaze_exit_code.h:30
BAD_ARGV == 2

\* blaze_exit_code.h:32
LOCAL_ENVIRONMENTAL_ERROR == 36

\* blaze_exit_code.h:37
INTERNAL_ERROR == 37

\* The enumerators declared by enum ExitCodes (blaze_exit_code.h:24-38).
ExitCodeNames ==
  {"SUCCESS", "BAD_ARGV", "LOCAL_ENVIRONMENTAL_ERROR", "INTERNAL_ERROR"}

\* Faulty table: BAD_ARGV given the value of success.
ExitCodesBadArgvZero ==
  [n \in ExitCodeNames |->
     CASE n = "SUCCESS" -> SUCCESS
       [] n = "BAD_ARGV" -> 0
       [] n = "LOCAL_ENVIRONMENTAL_ERROR" -> LOCAL_ENVIRONMENTAL_ERROR
       [] n = "INTERNAL_ERROR" -> INTERNAL_ERROR]

\* Faulty table: LOCAL_ENVIRONMENTAL_ERROR numbered like INTERNAL_ERROR.
ExitCodesCollide ==
  [n \in ExitCodeNames |->
     CASE n = "SUCCESS" -> SUCCESS
       [] n = "BAD_ARGV" -> BAD_ARGV
       [] n = "LOCAL_ENVIRONMENTAL_ERROR" -> INTERNAL_ERROR
       [] n = "INTERNAL_ERROR" -> INTERNAL_ERROR]

\* Faulty table: LOCAL_ENVIRONMENTAL_ERROR renumbered (out of sync with the
\* published value).
ExitCodesRenumbered ==
  [n \in ExitCodeNames |->
     CASE n = "SUCCESS" -> SUCCESS
       [] n = "BAD_ARGV" -> BAD_ARGV
       [] n = "LOCAL_ENVIRONMENTAL_ERROR" -> LOCAL_ENVIRONMENTAL_ERROR - 1
       [] n = "INTERNAL_ERROR" -> INTERNAL_ERROR]

\* Faulty table: INTERNAL_ERROR does not fit in the 8 bits of an exit status.
ExitCodesTooWide ==
  [n \in ExitCodeNames |->
     CASE n = "SUCCESS" -> SUCCESS
       [] n = "BAD_ARGV" -> BAD_ARGV
       [] n = "LOCAL_ENVIRONMENTAL_ERROR" -> LOCAL_ENVIRONMENTAL_ERROR
       [] n = "INTERNAL_ERROR" -> INTERNAL_ERROR + 256]

\* enum ExitCodes: each enumerator with the value its initialiser gives it.
ExitCodes ==
  [n \in ExitCodeNames |->
     CASE n = "SUCCESS" -> SUCCESS
       [] n = "BAD_ARGV" -> BAD_ARGV
       [] n = "LOCAL_ENVIRONMENTAL_ERROR" -> LOCAL_ENVIRONMENTAL_ERROR
       [] n = "INTERNAL_ERROR" -> INTERNAL_ERROR]

\* Evaluating the enumerator blaze_exit_code::<name> in an integer context.
lookup(name) == ExitCodes[name]

VARIABLES calls

vars == <<calls>>

\* Nothing has been evaluated when the client starts.
Init == calls = <<>>

\* The client names one enumerator and reads its value.
Lookup(name) ==
  /\ Len(calls) < MaxCalls
  /\ calls' = Append(calls, [name |-> name, value |-> lookup(name)])

Next == \E name \in ExitCodeNames : Lookup(name)

Spec == Init /\ [][Next]_vars

----------------------------------------------------------------------------

\* C1: among the exit codes of ExitCodes exactly one denotes success, it is
\* SUCCESS and its value is exactly 0; every other enumerator's value is
\* nonzero.  Stated on the table and on every value a client has read.
SuccessIsTheOnlyZero ==
  /\ Cardinality({n \in DOMAIN ExitCodes : ExitCodes[n] = 0}) = 1
  /\ \A i \in 1..Len(calls) :
       (calls[i].value = 0) <=> (calls[i].name = "SUCCESS")

\* C1 witness: a client has read SUCCESS and each of the three failure codes.
SuccessAndFailuresRead ==
  /\ {calls[i].name : i \in 1..Len(calls)} = ExitCodeNames
  /\ \E i \in 1..Len(calls) : calls[i].name = "SUCCESS" /\ calls[i].value = 0

\* C2: two distinct enumerators never have the same value: reading two
\* different names never returns the same integer (lookup is injective).
DistinctNamesDistinctValues ==
  \A i, j \in 1..Len(calls) :
    calls[i].name # calls[j].name => calls[i].value # calls[j].value

\* C2 witness: LOCAL_ENVIRONMENTAL_ERROR and INTERNAL_ERROR, the two closest
\* values, have both been read in one run.
NeighbouringCodesRead ==
  \E i, j \in 1..Len(calls) :
    /\ calls[i].name = "LOCAL_ENVIRONMENTAL_ERROR"
    /\ calls[j].name = "INTERNAL_ERROR"

\* C3: lookup returns the published bindings and no others: SUCCESS is 0,
\* BAD_ARGV is 2, LOCAL_ENVIRONMENTAL_ERROR is 36, INTERNAL_ERROR is 37, and
\* the registry holds exactly these four names.
PublishedBindings ==
  /\ DOMAIN ExitCodes =
       {"SUCCESS", "BAD_ARGV", "LOCAL_ENVIRONMENTAL_ERROR", "INTERNAL_ERROR"}
  /\ \A i \in 1..Len(calls) :
       /\ calls[i].name = "SUCCESS" => calls[i].value = 0
       /\ calls[i].name = "BAD_ARGV" => calls[i].value = 2
       /\ calls[i].name = "LOCAL_ENVIRONMENTAL_ERROR" => calls[i].value = 36
       /\ calls[i].name = "INTERNAL_ERROR" => calls[i].value = 37
       /\ calls[i].name \in
            {"SUCCESS", "BAD_ARGV", "LOCAL_ENVIRONMENTAL_ERROR",
             "INTERNAL_ERROR"}

\* C3 witness: all four bindings have been looked up, in declaration order.
AllFourLookedUp ==
  /\ Len(calls) = 4
  /\ calls[1].name = "SUCCESS"
  /\ calls[2].name = "BAD_ARGV"
  /\ calls[3].name = "LOCAL_ENVIRONMENTAL_ERROR"
  /\ calls[4].name = "INTERNAL_ERROR"

\* C8: the value of every enumerator lies in the inclusive range 0..255 of a
\* process exit status.
ValuesFitExitStatus ==
  /\ \A n \in DOMAIN ExitCodes : ExitCodes[n] \in 0..255
  /\ \A i \in 1..Len(calls) : calls[i].value >= 0 /\ calls[i].value <= 255

\* C8 witness: the largest code, INTERNAL_ERROR, has been read.
LargestCodeRead ==
  \E i \in 1..Len(calls) :
    calls[i].name = "INTERNAL_ERROR" /\ calls[i].value > 36

====
